---- MODULE Spec2Model ----
(***************************************************************************)
(* Ownership primitives of wit-guest.h: the owned buffers wit::string and  *)
(* wit::vector, the exported resource base ResourceExportBase<R> with its  *)
(* Owned wrapper, and the imported resource base ResourceImportBase.       *)
(***************************************************************************)
EXTENDS Integers, Sequences, FiniteSets, TLC

VARIABLES
    mem,        \* address -> bytes stored in the block at that address
    alloc,      \* heap address -> "unused" | "live" | "freed"
    freeCalls,  \* address -> number of times free() was called on it
    cls,        \* the class the instances of this run belong to
    buf,        \* buffer instance -> [st, data_, length]
    leakedBy,   \* heap address -> the instance leak() was called on while
                \* it owned the block (0: never leaked)
    crashed,    \* the guest trapped (write through a null pointer)
    last        \* the operation that ran last: its name, the objects a and b
                \* it ran on, the view v it was given, what the allocator or
                \* the host answered it (got) and what it returned (ret)


VARIABLES
    symmetric,  \* the build defines WIT_SYMMETRIC (handles are addresses)
    obj,        \* exported object -> [st, handle]
    owned,      \* exported object -> state of the Owned (unique_ptr) on it
    registry,   \* the host's table: handle -> the object registered under it
    newCalls,   \* exported object -> ResourceNew calls made with its address
    dropCalls,  \* handle -> ResourceDrop calls made with it
    objFrees    \* exported object -> times its memory was freed

VARIABLES
    ndebug,     \* the build defines NDEBUG (assert expands to nothing)
    imp,        \* imported resource wrapper -> [st, handle]
    hostCalls   \* calls into the host made by ResourceImportBase operations

bufVars == <<cls, mem, alloc, freeCalls, buf, leakedBy>>
expVars == <<obj, owned, registry, newCalls, dropCalls, objFrees>>
impVars == <<imp, hostCalls>>
build == <<symmetric, ndebug>>
vars == <<bufVars, expVars, impVars, build, crashed, last>>

(* ------------------------------ bounds --------------------------------- *)

\* number of buffer instances (string or vector objects) that may ever exist
NumBufs == 2
\* number of heap blocks the allocator can hand out
MaxAllocs == 2
\* number of exported resource objects that may ever be constructed
NumObjs == 2
\* number of imported resource wrappers that may ever be constructed
NumImps == 2

(* ------------------------------ memory --------------------------------- *)

\* nullptr
Null == 0
\* content of a byte malloc returned and nobody wrote yet
Uninit == -1

\* byte strings held in storage that is not on the heap (literals, host data)
Lits == << <<>>, <<104>>, <<105, 104>> >>

Heap == 1..MaxAllocs
Static == (MaxAllocs + 1)..(MaxAllocs + Len(Lits))
Addrs == Heap \cup Static
Bufs == 1..NumBufs

\* the value a function returning void gives its caller
Void == <<>>

\* the guest's memory as one value, threaded through the operations below
St == [mem |-> mem, alloc |-> alloc, freeCalls |-> freeCalls, buf |-> buf]
Set(s) == /\ UNCHANGED cls
          /\ mem' = s.mem
          /\ alloc' = s.alloc
          /\ freeCalls' = s.freeCalls
          /\ buf' = s.buf

\* malloc(n): the values the call may return, a block no one was given
\* before or a null pointer when the request cannot be satisfied
malloc(s) == {Null} \cup
             {p \in Heap : /\ s.alloc[p] = "unused"
                           /\ \A q \in Heap : s.alloc[q] = "unused" => p <= q}

\* the memory after malloc(n) returned p: a live block of n indeterminate bytes
Allocated(s, p, n) ==
    [s EXCEPT !.alloc[p] = "live", !.mem[p] = [i \in 1..n |-> Uninit]]

\* memcpy(dst, src, n), src given as the bytes read from the source
memcpy(s, dst, src, n) ==
    [s EXCEPT !.mem[dst] = [i \in 1..Len(s.mem[dst]) |->
                              IF i <= n THEN src[i] ELSE s.mem[dst][i]]]

\* free(p): the call is counted, the block is no longer live and what it
\* held is gone
free(s, p) ==
    [s EXCEPT !.freeCalls[p] = @ + 1,
              !.alloc = IF p \in Heap THEN [@ EXCEPT ![p] = "freed"] ELSE @,
              !.mem = IF p \in Heap THEN [@ EXCEPT ![p] = <<>>] ELSE @]

\* an instance not constructed yet, and one whose destructor has run
NoBuf == [st |-> "none", data_ |-> Null, length |-> 0]
Gone == [st |-> "destroyed", data_ |-> Null, length |-> 0]

\* a std::string_view / wit::span: pointer and length, owning nothing
View(p, l) == [ptr |-> p, len |-> l]
ViewBytes(s, v) == [i \in 1..v.len |-> s.mem[v.ptr][i]]
NoView == View(Null, 0)

\* the record kept of the operation that ran last
Op(op, a, b, v, got, ret) ==
    [op |-> op, a |-> a, b |-> b, v |-> v, got |-> got, ret |-> ret]

(* ----------------------------- wit::string ----------------------------- *)

\* string(char const *d, size_t l)
string_ctor(s, n, d, l) ==
    [s EXCEPT !.buf[n] = [st |-> "alive",
                          data_ |-> d, length |-> l]]

\* a faulty move constructor: the source keeps its pointer
string_move_ctor_keeps(s, n, b) ==
    [s EXCEPT !.buf[n] = [st |-> "alive",
                          data_ |-> s.buf[b].data_,
                          length |-> s.buf[b].length]]

\* a faulty move constructor: the source is reset to the empty string
string_move_ctor_resets(s, n, b) ==
    LET s1 == [s EXCEPT !.buf[n] = [st |-> "alive",
                                    data_ |-> s.buf[b].data_,
                                    length |-> s.buf[b].length]]
    IN  [s1 EXCEPT !.buf[b].data_ = Null, !.buf[b].length = 0]

\* string(string &&b)
string_move_ctor(s, n, b) ==
    LET s1 == [s EXCEPT !.buf[n] = [st |-> "alive",
                                    data_ |-> s.buf[b].data_,
                                    length |-> s.buf[b].length]]
    IN  [s1 EXCEPT !.buf[b].data_ = Null]

\* string &operator=(string &&b), a and b possibly the same object
string_move_assign(s, a, b) ==
    LET s1 == IF s.buf[a].data_ # Null THEN free(s, s.buf[a].data_) ELSE s
        s2 == [s1 EXCEPT !.buf[a].data_ = s1.buf[b].data_]
        s3 == [s2 EXCEPT !.buf[a].length = s2.buf[b].length]
    IN  [s3 EXCEPT !.buf[b].data_ = Null]

\* char const *data() const
string_data(s, a) == s.buf[a].data_

\* size_t size() const
string_size(s, a) == s.buf[a].length

\* ~string()
string_dtor(s, a) ==
    LET s1 == IF s.buf[a].data_ # Null THEN free(s, s.buf[a].data_) ELSE s
    IN  [s1 EXCEPT !.buf[a] = Gone]

\* a faulty leak(): the pointer is not cleared
string_leak_keeps(s, a) == s

\* a faulty leak(): the block is freed as the destructor would
string_leak_frees(s, a) ==
    LET s1 == IF s.buf[a].data_ # Null THEN free(s, s.buf[a].data_) ELSE s
    IN  [s1 EXCEPT !.buf[a].data_ = Null]

\* void leak()
string_leak(s, a) == [s EXCEPT !.buf[a].data_ = Null]
string_leak_ret(s, a) == Void

\* std::string_view get_view() const
string_get_view(s, a) == View(s.buf[a].data_, s.buf[a].length)

\* a faulty from_view: the string is built on the view's own storage
from_view_aliases(s, n, v, addr) == string_ctor(s, n, v.ptr, v.len)

\* static string from_view(std::string_view v), addr the value malloc returned.
\* The result is not checked: with addr null and v not empty, memcpy writes
\* through the null pointer, which traps or goes unnoticed (linear memory has
\* a writable address 0); either way no failure is reported.
from_view(s, n, v, addr) ==
    LET s1 == IF addr # Null THEN Allocated(s, addr, v.len) ELSE s
        s2 == IF addr # Null THEN memcpy(s1, addr, ViewBytes(s, v), v.len) ELSE s1
    IN  string_ctor(s2, n, addr, v.len)

(* ----------------------------- wit::vector ----------------------------- *)

\* vector(T *d, size_t l)
vector_ctor(s, n, d, l) ==
    [s EXCEPT !.buf[n] = [st |-> "alive",
                          data_ |-> d, length |-> l]]

\* vector(vector &&b)
vector_move_ctor(s, n, b) ==
    LET s1 == [s EXCEPT !.buf[n] = [st |-> "alive",
                                    data_ |-> s.buf[b].data_,
                                    length |-> s.buf[b].length]]
    IN  [s1 EXCEPT !.buf[b].data_ = Null]

\* a faulty operator=: the transfer comes first, the free after it
vector_move_assign_frees_after(s, a, b) ==
    LET s1 == [s EXCEPT !.buf[a].data_ = s.buf[b].data_]
        s2 == [s1 EXCEPT !.buf[a].length = s1.buf[b].length]
        s3 == [s2 EXCEPT !.buf[b].data_ = Null]
    IN  IF s.buf[a].data_ # Null THEN free(s3, s3.buf[a].data_) ELSE s3

\* vector &operator=(vector &&b), a and b possibly the same object
vector_move_assign(s, a, b) ==
    LET s1 == IF s.buf[a].data_ # Null THEN free(s, s.buf[a].data_) ELSE s
        s2 == [s1 EXCEPT !.buf[a].data_ = s1.buf[b].data_]
        s3 == [s2 EXCEPT !.buf[a].length = s2.buf[b].length]
    IN  [s3 EXCEPT !.buf[b].data_ = Null]

\* T const *data() const
vector_data(s, a) == s.buf[a].data_

\* size_t size() const
vector_size(s, a) == s.buf[a].length

\* ~vector()
vector_dtor(s, a) ==
    LET s1 == IF s.buf[a].data_ # Null THEN free(s, s.buf[a].data_) ELSE s
    IN  [s1 EXCEPT !.buf[a] = Gone]

\* void leak()
vector_leak(s, a) == [s EXCEPT !.buf[a].data_ = Null]
vector_leak_ret(s, a) == Void

\* wit::span<T> get_view() const
vector_get_view(s, a) == View(s.buf[a].data_, s.buf[a].length)

(* ------------------------ ResourceExportBase<R> ------------------------ *)

Objs == 1..NumObjs

\* static const handle_t invalid: -1 for int32_t handles, nullptr for
\* address handles (WIT_SYMMETRIC)
invalid_int == -1
invalid == IF symmetric THEN Null ELSE invalid_int

\* the values of handle_t the model draws from: int32_t values below, at and
\* above -1, or addresses with the null one
Handles == IF symmetric THEN 0..NumObjs ELSE (invalid_int - 1)..(NumObjs - 1)

NoObj == [st |-> "none", handle |-> 0]

\* the resource side of the state as one value
Es == [obj |-> obj, registry |-> registry, newCalls |-> newCalls,
       dropCalls |-> dropCalls, objFrees |-> objFrees]
SetE(e) == /\ obj' = e.obj
           /\ registry' = e.registry
           /\ newCalls' = e.newCalls
           /\ dropCalls' = e.dropCalls
           /\ objFrees' = e.objFrees

\* R::ResourceNew(this): the values the host may answer with, a handle it
\* never assigned before, or the sentinel when it cannot assign one
ResourceNewResults(e) ==
    {invalid} \cup {h \in Handles : h # invalid /\ e.registry[h] = 0}

\* the host's side of R::ResourceNew(this) answering h
ResourceNew(e, this, h) ==
    [e EXCEPT !.newCalls[this] = @ + 1,
              !.registry = IF h # invalid THEN [@ EXCEPT ![h] = this] ELSE @]

\* ResourceExportBase() : handle(R::ResourceNew((R *)this)) {}
ResourceExportBase_ctor(e, this, h) ==
    LET e1 == ResourceNew(e, this, h)
    IN  [e1 EXCEPT !.obj[this] = [st |-> "live", handle |-> h]]

\* handle_t get_handle() const
export_get_handle(e, this) == e.obj[this].handle

\* a faulty into_handle(): the handle is returned and kept
export_into_handle_keeps(e, this) == e

\* handle_t into_handle(): the object afterwards, and the value returned
export_into_handle(e, this) == [e EXCEPT !.obj[this].handle = invalid]
export_into_handle_ret(e, this) == e.obj[this].handle

\* Deregister::operator()(R *ptr), h the value read from ptr->handle: the
\* handles it calls R::ResourceDrop with
Deregister(h) ==
    IF symmetric
      THEN (IF h # Null THEN {h} ELSE {})
      ELSE (IF h >= 0 THEN {h} ELSE {})

\* what a read of ptr->handle may give: the field of a live object, anything
\* once the object's memory has been freed
ReadHandle(e, ptr) ==
    IF e.obj[ptr].st = "live" THEN {e.obj[ptr].handle} ELSE Handles

\* a faulty destructor: it deregisters as the Owned deleter does
ResourceExportBase_dtor_drops(e, this) ==
    Deregister(e.obj[this].handle)

\* ~ResourceExportBase() {}: the handles it calls ResourceDrop with
ResourceExportBase_dtor(e, this) == {}

\* the destruction callback the host invokes with the object's address: the
\* destructor runs and the object's memory is freed
Dtor(e, this) ==
    LET ds == ResourceExportBase_dtor(e, this)
        e1 == [e EXCEPT !.dropCalls = [h \in Handles |->
                                         IF h \in ds THEN @[h] + 1 ELSE @[h]]]
    IN  [e1 EXCEPT !.obj[this].st = "freed", !.objFrees[this] = @ + 1]

\* the host's side of R::ResourceDrop(h): the call is counted, and the object
\* still registered under h is destroyed through the callback
ResourceDrop(e, h) ==
    LET e1 == [e EXCEPT !.dropCalls[h] = @ + 1]
        o == e.registry[h]
    IN  IF o # 0 /\ e.obj[o].st = "live" THEN Dtor(e1, o) ELSE e1

(* ------------------------- resource operations ------------------------- *)

NextObj(o) == /\ obj[o].st = "none"
              /\ \A m \in Objs : obj[m].st = "none" => o <= m

\* an R is constructed and an Owned takes it
ExportCtor(o, h) ==
    /\ UNCHANGED <<bufVars, impVars, build, crashed>>
    /\ ~crashed /\ NextObj(o) /\ h \in ResourceNewResults(Es)
    /\ SetE(ResourceExportBase_ctor(Es, o, h))
    /\ owned' = [owned EXCEPT ![o] = "held"]
    /\ last' = Op("ResourceExportBase", o, 0, NoView, h, Void)

ExportGetHandle(o) ==
    /\ UNCHANGED <<bufVars, impVars, build, crashed>>
    /\ ~crashed /\ obj[o].st = "live"
    /\ last' = Op("get_handle", o, 0, NoView, Null, <<export_get_handle(Es, o)>>)
    /\ UNCHANGED expVars

ExportIntoHandle(o) ==
    /\ UNCHANGED <<bufVars, impVars, build, crashed>>
    /\ ~crashed /\ obj[o].st = "live"
    /\ SetE(export_into_handle(Es, o))
    /\ last' = Op("into_handle", o, 0, NoView, Null, <<export_into_handle_ret(Es, o)>>)
    /\ UNCHANGED owned

\* the Owned goes out of scope (or is reset): its deleter runs on the pointer
\* it holds, and what ResourceDrop was called with is kept in last.ret
OwnedExit(o) ==
    /\ UNCHANGED <<bufVars, impVars, build, crashed>>
    /\ ~crashed /\ owned[o] = "held"
    /\ \E h \in ReadHandle(Es, o) :
         LET ds == Deregister(h)
         IN  /\ SetE(IF ds = {} THEN Es ELSE ResourceDrop(Es, h))
             /\ last' = Op("Deregister", o, 0, NoView, Null,
                           IF ds = {} THEN Void ELSE <<h>>)
    /\ owned' = [owned EXCEPT ![o] = "gone"]

\* Owned::release(): the pointer is given up, the deleter does not run
OwnedRelease(o) ==
    /\ UNCHANGED <<bufVars, impVars, build, crashed>>
    /\ ~crashed /\ owned[o] = "held"
    /\ owned' = [owned EXCEPT ![o] = "released"]
    /\ last' = Op("release", o, 0, NoView, Null, Void)
    /\ UNCHANGED <<obj, registry, newCalls, dropCalls, objFrees>>

\* the host invokes the destruction callback for a handle of its table
HostDtor(h) ==
    /\ UNCHANGED <<bufVars, impVars, build, crashed>>
    /\ ~crashed /\ registry[h] # 0 /\ obj[registry[h]].st = "live"
    /\ SetE(Dtor(Es, registry[h]))
    /\ last' = Op("Dtor", registry[h], 0, NoView, Null, Void)
    /\ UNCHANGED owned

(* -------------------------- ResourceImportBase ------------------------- *)

Imps == 1..NumImps

NoImp == [st |-> "none", handle |-> 0]

\* the imported side of the state as one value
Is == [imp |-> imp, hostCalls |-> hostCalls]
SetI(i) == /\ imp' = i.imp
           /\ hostCalls' = i.hostCalls

\* ResourceImportBase(handle_t h = invalid)
ResourceImportBase_ctor(i, n, h) ==
    [i EXCEPT !.imp[n] = [st |-> "alive", handle |-> h]]

\* a faulty move constructor: the source keeps its handle
ResourceImportBase_move_ctor_keeps(i, n, r) ==
    [i EXCEPT !.imp[n] = [st |-> "alive", handle |-> i.imp[r].handle]]

\* ResourceImportBase(ResourceImportBase &&r)
ResourceImportBase_move_ctor(i, n, r) ==
    LET i1 == [i EXCEPT !.imp[n] = [st |-> "alive", handle |-> i.imp[r].handle]]
    IN  [i1 EXCEPT !.imp[r].handle = invalid]

\* void set_handle(handle_t h)
set_handle(i, a, h) == [i EXCEPT !.imp[a].handle = h]

\* handle_t get_handle() const
import_get_handle(i, a) == i.imp[a].handle

\* handle_t into_handle(): the wrapper afterwards, and the value returned
import_into_handle(i, a) == [i EXCEPT !.imp[a].handle = invalid]
import_into_handle_ret(i, a) == i.imp[a].handle

\* a faulty operator=: the assertion is missing
move_assign_never_asserts(i, a) == FALSE

\* assert(handle == invalid) in operator=: the assertion stops the program
\* unless the build compiles it out
move_assign_asserts(i, a) == ~ndebug /\ i.imp[a].handle # invalid

\* ResourceImportBase &operator=(ResourceImportBase &&r) past the assertion,
\* a and r possibly the same object
ResourceImportBase_move_assign(i, a, r) ==
    LET i1 == [i EXCEPT !.imp[a].handle = i.imp[r].handle]
    IN  [i1 EXCEPT !.imp[r].handle = invalid]

\* a faulty destructor: a handle still held is released in the host
ResourceImportBase_dtor_drops(i, a) ==
    [i EXCEPT !.imp[a].st = "destroyed",
              !.hostCalls = IF i.imp[a].handle # invalid THEN @ + 1 ELSE @]

\* the implicit destructor: the wrapper is gone, its handle is written nowhere
ResourceImportBase_dtor(i, a) ==
    [i EXCEPT !.imp[a].st = "destroyed"]

(* ---------------------- imported resource operations ------------------- *)

NextImp(n) == /\ imp[n].st = "none"
              /\ \A m \in Imps : imp[m].st = "none" => n <= m

\* the handles the host may pass to the guest: live ones no wrapper holds
Received == {h \in Handles : /\ h # invalid
                             /\ \A m \in Imps : imp[m].st = "alive" => imp[m].handle # h}

ImportCtor(n, h) ==
    /\ UNCHANGED <<bufVars, expVars, build>>
    /\ ~crashed /\ NextImp(n) /\ h \in Received \cup {invalid}
    /\ SetI(ResourceImportBase_ctor(Is, n, h))
    /\ last' = Op("ResourceImportBase", n, 0, NoView, Null, Void)
    /\ UNCHANGED crashed

ImportMoveCtor(n, r) ==
    /\ UNCHANGED <<bufVars, expVars, build>>
    /\ ~crashed /\ NextImp(n) /\ imp[r].st = "alive"
    /\ SetI(ResourceImportBase_move_ctor(Is, n, r))
    /\ last' = Op("ResourceImportBase_move", n, r, NoView, Null, Void)
    /\ UNCHANGED crashed

ImportSetHandle(a, h) ==
    /\ UNCHANGED <<bufVars, expVars, build>>
    /\ ~crashed /\ imp[a].st = "alive" /\ h \in Handles
    /\ SetI(set_handle(Is, a, h))
    /\ last' = Op("set_handle", a, 0, NoView, Null, Void)
    /\ UNCHANGED crashed

ImportGetHandle(a) ==
    /\ UNCHANGED <<bufVars, expVars, build>>
    /\ ~crashed /\ imp[a].st = "alive"
    /\ last' = Op("import_get_handle", a, 0, NoView, Null, <<import_get_handle(Is, a)>>)
    /\ UNCHANGED <<impVars, crashed>>

ImportIntoHandle(a) ==
    /\ UNCHANGED <<bufVars, expVars, build>>
    /\ ~crashed /\ imp[a].st = "alive"
    /\ SetI(import_into_handle(Is, a))
    /\ last' = Op("import_into_handle", a, 0, NoView, Null,
                  <<import_into_handle_ret(Is, a)>>)
    /\ UNCHANGED crashed

ImportMoveAssign(a, r) ==
    /\ UNCHANGED <<bufVars, expVars, build>>
    /\ ~crashed /\ imp[a].st = "alive" /\ imp[r].st = "alive"
    /\ IF move_assign_asserts(Is, a)
         THEN crashed' = TRUE /\ UNCHANGED impVars
         ELSE SetI(ResourceImportBase_move_assign(Is, a, r)) /\ UNCHANGED crashed
    /\ last' = Op("import_move_assign", a, r, NoView, Null, Void)

ImportDtor(a) ==
    /\ UNCHANGED <<bufVars, expVars, build>>
    /\ ~crashed /\ imp[a].st = "alive"
    /\ SetI(ResourceImportBase_dtor(Is, a))
    /\ last' = Op("import_dtor", a, 0, NoView, Null, Void)
    /\ UNCHANGED crashed

(* ------------------------- buffer operations --------------------------- *)

Alive(i, k) == cls = k /\ buf[i].st = "alive"
\* the slot the next constructed instance takes
NextSlot(n) == /\ buf[n].st = "none"
               /\ \A m \in Bufs : buf[m].st = "none" => n <= m

\* a block with content Lits[c] arrives across the boundary (allocated with
\* the shared allocator) and a string takes ownership of it
NewString(n, c) ==
    /\ UNCHANGED <<expVars, impVars, build>>
    /\ ~crashed /\ cls = "string" /\ NextSlot(n)
    /\ \E p \in malloc(St) \ {Null} :
         LET s1 == memcpy(Allocated(St, p, Len(Lits[c])), p, Lits[c], Len(Lits[c]))
         IN  /\ Set(string_ctor(s1, n, p, Len(Lits[c])))
             /\ last' = Op("string_ctor", n, 0, NoView, p, Void)
    /\ UNCHANGED <<leakedBy, crashed>>

StringMoveCtor(n, b) ==
    /\ UNCHANGED <<expVars, impVars, build>>
    /\ ~crashed /\ NextSlot(n) /\ Alive(b, "string")
    /\ Set(string_move_ctor(St, n, b))
    /\ last' = Op("string_move_ctor", n, b, NoView, Null, Void)
    /\ UNCHANGED <<leakedBy, crashed>>

StringMoveAssign(a, b) ==
    /\ UNCHANGED <<expVars, impVars, build>>
    /\ ~crashed /\ Alive(a, "string") /\ Alive(b, "string")
    /\ Set(string_move_assign(St, a, b))
    /\ last' = Op("string_move_assign", a, b, NoView, Null, Void)
    /\ UNCHANGED <<leakedBy, crashed>>

StringLeak(a) ==
    /\ UNCHANGED <<expVars, impVars, build>>
    /\ ~crashed /\ Alive(a, "string")
    /\ Set(string_leak(St, a))
    /\ leakedBy' = IF buf[a].data_ \in Heap
                     THEN [leakedBy EXCEPT ![buf[a].data_] = a] ELSE leakedBy
    /\ last' = Op("string_leak", a, 0, NoView, Null, string_leak_ret(St, a))
    /\ UNCHANGED crashed

StringDtor(a) ==
    /\ UNCHANGED <<expVars, impVars, build>>
    /\ ~crashed /\ Alive(a, "string")
    /\ Set(string_dtor(St, a))
    /\ last' = Op("string_dtor", a, 0, NoView, Null, Void)
    /\ UNCHANGED <<leakedBy, crashed>>

\* the views from_view is called with: of a literal, or of a live string
SourceViews ==
    {View(p, Len(mem[p])) : p \in Static} \cup
    {string_get_view(St, i) :
        i \in {j \in Bufs : Alive(j, "string") /\ buf[j].data_ # Null}}

StringFromView(n, v, addr) ==
    /\ UNCHANGED <<expVars, impVars, build>>
    /\ ~crashed /\ cls = "string" /\ NextSlot(n)
    /\ v \in SourceViews /\ addr \in malloc(St)
    /\ \/ /\ Set(from_view(St, n, v, addr))
          /\ UNCHANGED crashed
       \/ /\ addr = Null /\ v.len > 0
          /\ crashed' = TRUE
          /\ UNCHANGED <<cls, mem, alloc, freeCalls, buf>>
    /\ last' = Op("from_view", n, 0, v, addr, Void)
    /\ UNCHANGED leakedBy

\* a block arrives across the boundary and a vector takes ownership of it
NewVector(n, c) ==
    /\ UNCHANGED <<expVars, impVars, build>>
    /\ ~crashed /\ cls = "vector" /\ NextSlot(n)
    /\ \E p \in malloc(St) \ {Null} :
         LET s1 == memcpy(Allocated(St, p, Len(Lits[c])), p, Lits[c], Len(Lits[c]))
         IN  /\ Set(vector_ctor(s1, n, p, Len(Lits[c])))
             /\ last' = Op("vector_ctor", n, 0, NoView, p, Void)
    /\ UNCHANGED <<leakedBy, crashed>>

VectorMoveCtor(n, b) ==
    /\ UNCHANGED <<expVars, impVars, build>>
    /\ ~crashed /\ NextSlot(n) /\ Alive(b, "vector")
    /\ Set(vector_move_ctor(St, n, b))
    /\ last' = Op("vector_move_ctor", n, b, NoView, Null, Void)
    /\ UNCHANGED <<leakedBy, crashed>>

VectorMoveAssign(a, b) ==
    /\ UNCHANGED <<expVars, impVars, build>>
    /\ ~crashed /\ Alive(a, "vector") /\ Alive(b, "vector")
    /\ Set(vector_move_assign(St, a, b))
    /\ last' = Op("vector_move_assign", a, b, NoView, Null, Void)
    /\ UNCHANGED <<leakedBy, crashed>>

VectorLeak(a) ==
    /\ UNCHANGED <<expVars, impVars, build>>
    /\ ~crashed /\ Alive(a, "vector")
    /\ Set(vector_leak(St, a))
    /\ leakedBy' = IF buf[a].data_ \in Heap
                     THEN [leakedBy EXCEPT ![buf[a].data_] = a] ELSE leakedBy
    /\ last' = Op("vector_leak", a, 0, NoView, Null, vector_leak_ret(St, a))
    /\ UNCHANGED crashed

VectorDtor(a) ==
    /\ UNCHANGED <<expVars, impVars, build>>
    /\ ~crashed /\ Alive(a, "vector")
    /\ Set(vector_dtor(St, a))
    /\ last' = Op("vector_dtor", a, 0, NoView, Null, Void)
    /\ UNCHANGED <<leakedBy, crashed>>

InitBuf ==
    /\ cls \in {"string", "vector"}
    /\ mem = [p \in Addrs |-> IF p \in Static THEN Lits[p - MaxAllocs] ELSE <<>>]
    /\ alloc = [p \in Heap |-> "unused"]
    /\ freeCalls = [p \in Addrs |-> 0]
    /\ buf = [i \in Bufs |-> NoBuf]
    /\ leakedBy = [p \in Heap |-> 0]

\* no exported resource has been constructed
InitResources ==
    /\ obj = [o \in Objs |-> NoObj]
    /\ owned = [o \in Objs |-> "none"]
    /\ registry = [h \in Handles |-> 0]
    /\ newCalls = [o \in Objs |-> 0]
    /\ dropCalls = [h \in Handles |-> 0]
    /\ objFrees = [o \in Objs |-> 0]

\* no imported resource wrapper has been constructed
InitImports ==
    /\ imp = [i \in Imps |-> NoImp]
    /\ hostCalls = 0

Init ==
    /\ InitBuf
    /\ symmetric = FALSE /\ ndebug = FALSE
    /\ InitResources
    /\ InitImports
    /\ crashed = FALSE
    /\ last = Op("init", 0, 0, NoView, Null, Void)

Next ==
    \/ \E n \in Bufs, c \in 1..Len(Lits) : NewString(n, c)
    \/ \E n, b \in Bufs : StringMoveCtor(n, b)
    \/ \E a, b \in Bufs : StringMoveAssign(a, b)
    \/ \E a \in Bufs : StringLeak(a)
    \/ \E a \in Bufs : StringDtor(a)
    \/ \E n \in Bufs, v \in SourceViews, addr \in malloc(St) : StringFromView(n, v, addr)
    \/ \E n \in Bufs, c \in 1..Len(Lits) : NewVector(n, c)
    \/ \E n, b \in Bufs : VectorMoveCtor(n, b)
    \/ \E a, b \in Bufs : VectorMoveAssign(a, b)
    \/ \E a \in Bufs : VectorLeak(a)
    \/ \E a \in Bufs : VectorDtor(a)



Spec == Init /\ [][Next]_vars

(* the resource classes exported by the guest, in either build *)
InitExport ==
    /\ symmetric \in BOOLEAN /\ ndebug = FALSE
    /\ InitResources
    /\ InitImports
    /\ InitBuf /\ cls = "string"
    /\ crashed = FALSE
    /\ last = Op("init", 0, 0, NoView, Null, Void)

NextExport ==
    \/ \E o \in Objs, h \in Handles : ExportCtor(o, h)
    \/ \E o \in Objs : ExportGetHandle(o)
    \/ \E o \in Objs : ExportIntoHandle(o)
    \/ \E o \in Objs : OwnedExit(o)
    \/ \E o \in Objs : OwnedRelease(o)
    \/ \E h \in Handles : HostDtor(h)

SpecExport == InitExport /\ [][NextExport]_vars

(* the resource wrappers imported by the guest, in every build *)
InitImport ==
    /\ symmetric \in BOOLEAN /\ ndebug \in BOOLEAN
    /\ InitResources
    /\ InitImports
    /\ InitBuf /\ cls = "string"
    /\ crashed = FALSE
    /\ last = Op("init", 0, 0, NoView, Null, Void)

NextImport ==
    \/ \E n \in Imps, h \in Handles : ImportCtor(n, h)
    \/ \E n, r \in Imps : ImportMoveCtor(n, r)
    \/ \E a \in Imps, h \in Handles : ImportSetHandle(a, h)
    \/ \E a \in Imps : ImportGetHandle(a)
    \/ \E a \in Imps : ImportIntoHandle(a)
    \/ \E a, r \in Imps : ImportMoveAssign(a, r)
    \/ \E a \in Imps : ImportDtor(a)

SpecImport == InitImport /\ [][NextImport]_vars

(* ======================== properties of the buffers ==================== *)

LeakOps == {"string_leak", "vector_leak"}
DtorOps == {"string_dtor", "vector_dtor"}
AllDestroyed == \A i \in Bufs : buf[i].st # "alive"

\* C1: over moves, self-move-assignment, leak() and destruction, no block is
\* passed to free more than once; and once no instance is left alive, every
\* block that was handed out and never leaked has been freed exactly once.
C1_FreedExactlyOnce ==
    /\ \A p \in Addrs : freeCalls[p] <= 1
    /\ AllDestroyed =>
         \A p \in Heap : (alloc[p] # "unused" /\ leakedBy[p] = 0) => freeCalls[p] = 1

\* both instances were built on blocks of their own and both are destroyed
C1_Witness ==
    /\ \A i \in Bufs : buf[i].st = "destroyed"
    /\ \A p \in Heap : freeCalls[p] = 1

\* C2: a block leak() was called on is never freed afterwards, by the
\* destructor of the instance or by a move-assignment into it: it stays
\* allocated, and no live instance points to it any more.
C2_LeakedNeverFreed ==
    \A p \in Heap :
        leakedBy[p] # 0 =>
            /\ freeCalls[p] = 0
            /\ alloc[p] = "live"
            /\ \A i \in Bufs : buf[i].st = "alive" => buf[i].data_ # p

\* the instance that leaked a block has been destroyed
C2_Witness ==
    \E p \in Heap : /\ leakedBy[p] # 0
                    /\ buf[leakedBy[p]].st = "destroyed"
                    /\ last.op \in DtorOps /\ last.a = leakedBy[p]

\* C3 as stated: leak() releases the obligation without freeing and returns
\* the raw pointer and the length of the buffer to its caller.
C3_LeakReturnsPointerAndLength ==
    [][last'.op \in LeakOps =>
          /\ last'.ret = <<buf[last'.a].data_, buf[last'.a].length>>
          /\ freeCalls' = freeCalls
          /\ buf'[last'.a].data_ = Null]_vars

\* C3 amended: leak() releases the obligation without freeing and returns
\* nothing; the pointer and length to hand on are those data() and size()
\* give before the call, and after it data() is null.
C3_LeakReleasesAndReturnsNothing ==
    [][last'.op \in LeakOps =>
          /\ last'.ret = Void
          /\ freeCalls' = freeCalls /\ alloc' = alloc /\ mem' = mem
          /\ buf'[last'.a].data_ = Null
          /\ \A i \in Bufs \ {last'.a} : buf'[i] = buf[i]]_vars

\* leak() has just run on an instance that owned a block
C3_Witness ==
    /\ last.op \in LeakOps
    /\ \E p \in Heap : leakedBy[p] = last.a /\ alloc[p] = "live"
    /\ buf[last.a].data_ = Null

\* C4 as stated: when malloc cannot satisfy the request, from_view reports the
\* failure: no string with a null data pointer comes back and nothing is
\* copied through the null pointer. (Stated for the requests of at least one
\* byte, where a null answer of malloc can only mean failure.)
C4_FromViewReportsAllocationFailure ==
    (last.op = "from_view" /\ last.got = Null /\ last.v.len > 0) =>
        (~crashed /\ buf[last.a].st = "none")

\* C5: when malloc succeeds, the string from_view(v) returns has the size of
\* v and the bytes of v (the empty view included), on a block that was never
\* handed out before and is not v's storage, which the call leaves as it was;
\* a destructor frees nothing but the block of its own instance, so destroying
\* the copy leaves v's storage unfreed.
C5_FromViewCopies ==
    [][/\ (last'.op = "from_view" /\ last'.got # Null) =>
            /\ string_size(St', last'.a) = last'.v.len
            /\ ViewBytes(St', string_get_view(St', last'.a)) = ViewBytes(St, last'.v)
            /\ string_data(St', last'.a) # last'.v.ptr
            /\ string_data(St', last'.a) \in Heap
            /\ alloc[string_data(St', last'.a)] = "unused"
            /\ mem'[last'.v.ptr] = mem[last'.v.ptr]
            /\ freeCalls' = freeCalls
       /\ last'.op = "string_dtor" =>
            \A p \in Addrs : freeCalls'[p] # freeCalls[p] => p = buf[last'.a].data_]_vars

\* from_view has just copied the two-byte view of a live string
C5_Witness ==
    /\ last.op = "from_view" /\ last.got # Null
    /\ last.v.len = Len(Lits[Len(Lits)]) /\ last.v.ptr \in Heap
    /\ ViewBytes(St, string_get_view(St, last.a)) = Lits[Len(Lits)]

MoveAssignOps == {"string_move_assign", "vector_move_assign"}
MoveCtorOps == {"string_move_ctor", "vector_move_ctor"}

\* data() and size() of an instance of the class of this run
Data(s, a) == IF cls = "string" THEN string_data(s, a) ELSE vector_data(s, a)
Size(s, a) == IF cls = "string" THEN string_size(s, a) ELSE vector_size(s, a)

\* C14: dst = move(src) with dst and src distinct frees the block dst owned,
\* once, and no other block (so the free is of the old block, before the
\* transfer); afterwards dst has the pointer and length src had, src has a
\* null pointer, and the block src owned is live and was not freed.
C14_MoveAssignFreesOldThenTransfers ==
    [][(last'.op \in MoveAssignOps /\ last'.a # last'.b) =>
          /\ \A p \in Addrs :
                freeCalls'[p] = freeCalls[p] + (IF p = Data(St, last'.a) THEN 1 ELSE 0)
          /\ Data(St, last'.a) # Null => freeCalls'[Data(St, last'.a)] = 1
          /\ Data(St', last'.a) = Data(St, last'.b)
          /\ Size(St', last'.a) = Size(St, last'.b)
          /\ Data(St', last'.b) = Null
          /\ Data(St, last'.b) # Null =>
                /\ alloc'[Data(St, last'.b)] = "live"
                /\ freeCalls'[Data(St, last'.b)] = 0]_vars

\* an instance that owned a block has just been assigned another one's block
C14_Witness ==
    /\ last.op \in MoveAssignOps /\ last.a # last.b
    /\ Data(St, last.a) # Null /\ alloc[Data(St, last.a)] = "live"
    /\ Data(St, last.b) = Null
    /\ \E p \in Heap : alloc[p] = "freed" /\ freeCalls[p] = 1

\* C18: leak() and being the source of a move set the data pointer of the
\* instance to null and leave its length as it was: the instance still
\* reports its former size() while data() is null.
C18_LengthKept ==
    [][/\ last'.op \in LeakOps =>
            /\ Data(St', last'.a) = Null
            /\ Size(St', last'.a) = Size(St, last'.a)
            /\ buf'[last'.a] = [buf[last'.a] EXCEPT !.data_ = Null]
       /\ last'.op \in MoveCtorOps \cup MoveAssignOps =>
            /\ Data(St', last'.b) = Null
            /\ Size(St', last'.b) = Size(St, last'.b)
            /\ buf'[last'.b] = [buf[last'.b] EXCEPT !.data_ = Null]]_vars

\* a string that owned a block of at least one byte has just been moved from
C18_Witness ==
    /\ last.op = "string_move_ctor"
    /\ buf[last.b].st = "alive"
    /\ Data(St, last.b) = Null /\ Size(St, last.b) > 0
    /\ Data(St, last.a) # Null /\ Size(St, last.a) = Size(St, last.b)

(* =================== properties of exported resources ================== *)

C7_DtorDoesNotDrop ==
    [][/\ \A h \in Handles :
            dropCalls'[h] = dropCalls[h] +
                (IF last'.op = "Deregister" /\ last'.ret = <<h>> THEN 1 ELSE 0)
       /\ last'.op = "Dtor" =>
            /\ objFrees[last'.a] = 0
            /\ objFrees'[last'.a] = 1
       /\ \A o \in Objs : objFrees'[o] <= 1]_vars

\* the host has just destroyed an object that still held its live handle
C7_Witness ==
    /\ last.op = "Dtor"
    /\ obj[last.a].st = "freed" /\ obj[last.a].handle # invalid
    /\ objFrees[last.a] = 1
    /\ \A h \in Handles : dropCalls[h] = 0

\* C8 as stated: for a handle h an object was registered under, ResourceDrop(h)
\* is called at most once, and only while the object is alive and still holds
\* h (not after into_handle(), not after the host destroyed the object).
C8_DropOnlyWhileOwned ==
    [][\A h \in Handles :
          (registry[h] # 0 /\ dropCalls'[h] > dropCalls[h]) =>
              /\ dropCalls[h] = 0
              /\ obj[registry[h]].st = "live"
              /\ obj[registry[h]].handle = h]_vars

\* C9 as stated: the constructor calls ResourceNew once with the address of
\* the object and stores the answer; when the answer is the sentinel the
\* construction fails, so no object exists right after its construction with
\* get_handle() equal to the sentinel.
C9_NoObjectWithoutHandle ==
    last.op = "ResourceExportBase" =>
        /\ newCalls[last.a] = 1
        /\ obj[last.a].st = "live" =>
             /\ export_get_handle(Es, last.a) = last.got
             /\ export_get_handle(Es, last.a) # invalid

\* C15 as stated: the Owned deleter run on an object calls ResourceDrop
\* once, with the handle of the object, if and only if that handle is not the
\* sentinel, for every value of handle_t (every int32_t other than -1, every
\* address other than null); and it does not free the object itself.
C15_DropIffNotSentinel ==
    [][(last'.op = "Deregister" /\ obj[last'.a].st = "live") =>
          LET h == obj[last'.a].handle
          IN  /\ (h # invalid) <=> (last'.ret = <<h>>)
              /\ \A g \in Handles :
                    dropCalls'[g] = dropCalls[g] +
                        (IF g = h /\ h # invalid THEN 1 ELSE 0)]_vars

\* C16 as stated, for the Owned deleter: after it asked the host to drop the
\* handle, the handle of the exported object is the sentinel (as it is after
\* into_handle()), so that deregistering the object again does nothing.
C16_DeregisterLeavesSentinel ==
    [][/\ last'.op = "into_handle" => obj'[last'.a].handle = invalid
       /\ (last'.op = "Deregister" /\ last'.ret # Void) =>
             obj'[last'.a].handle = invalid]_vars

\* C17 as stated: with the host free to invoke the destruction callback at any
\* point, the object is still alive whenever the Owned deleter reads its
\* handle.
C17_DeregisterReadsLiveObject ==
    [][last'.op = "Deregister" => obj[last'.a].st = "live"]_vars

(* =================== properties of imported resources ================== *)

\* C10: move-constructing B from A, whatever A holds, gives B the handle A
\* held, leaves A with the sentinel and makes no call into the host.
C10_MoveCtorTransfers ==
    [][last'.op = "ResourceImportBase_move" =>
          /\ imp'[last'.a].st = "alive"
          /\ import_get_handle(Is', last'.a) = imp[last'.b].handle
          /\ import_get_handle(Is', last'.b) = invalid
          /\ hostCalls' = hostCalls]_vars

\* a wrapper has just been move-constructed from one that held a live handle
C10_Witness ==
    /\ last.op = "ResourceImportBase_move"
    /\ imp[last.a].st = "alive" /\ imp[last.a].handle # invalid
    /\ imp[last.b].st = "alive" /\ imp[last.b].handle = invalid

\* C11 as stated: move-assignment into a wrapper whose handle is not the
\* sentinel (self-assignment of a live wrapper included) is stopped by the
\* assertion before any field is written; into an empty wrapper it transfers
\* the handle and leaves the source with the sentinel.
C11_AssignIntoLiveRejected ==
    [][last'.op = "import_move_assign" =>
          IF imp[last'.a].handle # invalid
            THEN crashed' /\ imp' = imp
            ELSE /\ ~crashed'
                 /\ imp'[last'.b].handle = invalid
                 /\ last'.a # last'.b => imp'[last'.a].handle = imp[last'.b].handle]_vars

\* C11 amended: the assertion stops the assignment only in a build where
\* assert is active (NDEBUG not defined); with NDEBUG the handle of the
\* destination is overwritten by that of the source and the source is left
\* with the sentinel. Into an empty wrapper the handle is transferred in
\* every build.
C11_AssignIntoLiveRejectedUnlessNDEBUG ==
    [][last'.op = "import_move_assign" =>
          IF imp[last'.a].handle # invalid /\ ~ndebug
            THEN crashed' /\ imp' = imp
            ELSE /\ ~crashed'
                 /\ imp'[last'.b].handle = invalid
                 /\ last'.a # last'.b => imp'[last'.a].handle = imp[last'.b].handle]_vars

\* the assertion has just stopped an assignment between two live wrappers
C11_Witness ==
    /\ last.op = "import_move_assign" /\ crashed /\ ~ndebug
    /\ last.a # last.b
    /\ imp[last.a].handle # invalid /\ imp[last.b].handle # invalid

\* no two live wrappers hold the same handle other than the sentinel
NoSharedHandle ==
    \A a, b \in Imps :
        (a # b /\ imp[a].st = "alive" /\ imp[b].st = "alive"
             /\ imp[a].handle = imp[b].handle) => imp[a].handle = invalid

\* this step replaced the live handle of wrapper a, which stays alive, and the
\* handle was neither returned to the caller nor taken by another wrapper
Overwritten(a) ==
    /\ imp[a].st = "alive" /\ imp'[a].st = "alive"
    /\ imp[a].handle # invalid
    /\ imp'[a].handle # imp[a].handle
    /\ last'.ret # <<imp[a].handle>>
    /\ \A m \in Imps : imp'[m].st = "alive" => imp'[m].handle # imp[a].handle

\* C12 as stated: over construction from a received handle, moves, set_handle,
\* get_handle and into_handle, no two wrappers ever hold the same handle other
\* than the sentinel, and no live handle is overwritten without having been
\* extracted or moved out.
C12_ExclusiveHandles ==
    [][NoSharedHandle' /\ \A a \in Imps : ~Overwritten(a)]_vars

\* C12 amended: no operation other than set_handle makes two wrappers hold
\* the same live handle; a live handle is overwritten without having been
\* extracted or moved out only by set_handle, which stores any value, or by a
\* move-assignment into the wrapper in a build with NDEBUG.
C12_ExclusiveExceptSetHandle ==
    [][/\ (NoSharedHandle /\ last'.op # "set_handle") => NoSharedHandle'
       /\ \A a \in Imps :
            Overwritten(a) =>
                /\ last'.a = a
                /\ \/ last'.op = "set_handle"
                   \/ last'.op = "import_move_assign" /\ ndebug]_vars

\* a live handle has just been moved from one wrapper to another by assignment
C12_Witness ==
    /\ last.op = "import_move_assign" /\ ~crashed /\ last.a # last.b
    /\ imp[last.a].st = "alive" /\ imp[last.a].handle # invalid
    /\ imp[last.b].st = "alive" /\ imp[last.b].handle = invalid
    /\ NoSharedHandle

\* C13: no operation of ResourceImportBase calls into the host: a wrapper
\* going out of scope with a live handle releases nothing, and into_handle()
\* returns the handle held and leaves the sentinel without releasing it.
C13_NoRelease ==
    [][/\ hostCalls' = hostCalls
       /\ last'.op = "import_into_handle" =>
            /\ last'.ret = <<imp[last'.a].handle>>
            /\ imp'[last'.a].handle = invalid
       /\ last'.op = "import_dtor" =>
            \A m \in Imps \ {last'.a} : imp'[m] = imp[m]]_vars

\* a wrapper holding a live handle has just gone out of scope
C13_Witness ==
    /\ last.op = "import_dtor"
    /\ imp[last.a].st = "destroyed" /\ imp[last.a].handle # invalid
    /\ hostCalls = 0

====
